---- MODULE Spec2Model ----
(***************************************************************************)
(* A model of nmrglue/fileio/spinsolve.py: the Spinsolve binary codec      *)
(* (read_binary, write_binary, put_data), the parameter text codec         *)
(* (read_pars, write_pars, create_dic) and the directory reader (read).    *)
(*                                                                         *)
(* Files are byte sequences (0..255) or character sequences; 32-bit words  *)
(* are packed and unpacked byte by byte, so that byte order, the           *)
(* float-to-integer cast of put_data and the reinterpretation of the       *)
(* bytes by numpy.frombuffer are all what the code makes them.             *)
(***************************************************************************)
EXTENDS Integers, Sequences, FiniteSets, TLC

VARIABLES native, input, files, handles, origin, last

vars == <<native, input, files, handles, origin, last>>

\* ------------------------------------------------------------- bounds
MaxN == 2          \* samples in an array handed to write_binary
MaxVal == 1        \* real and imaginary parts range over -MaxVal..MaxVal
MaxDim == 2        \* n1, n2 of an installed header range over 0..MaxDim
MaxRep == 2        \* n3, n4 of an installed header range over 1..MaxRep
MaxFloats == 8     \* payload floats of an installed binary file
MaxCut == 1        \* bytes missing from the last word of an installed file
MaxLines == 2      \* lines of a parameter file handed to read_pars
MaxEntries == 1    \* entries of each parameter file of a directory handed to read

\* ------------------------------------------------------- generalities
NoFile == [kind |-> "none"]
Idle == [op |-> "none"]
NoOrigin == [kind |-> "none"]
BinName == "data.1d"
ParNames == <<"acqu.par", "protocol.par">>
FileNames == {BinName, ParNames[1], ParNames[2]}

Reverse(s) == [i \in 1..Len(s) |-> s[Len(s) + 1 - i]]

RECURSIVE Flatten(_)
Flatten(ss) == IF ss = <<>> THEN <<>> ELSE Head(ss) \o Flatten(Tail(ss))

Abs(x) == IF x < 0 THEN -x ELSE x

\* ------------------------------------------------- 32-bit words, bytes
\* The four bytes of the two's-complement int32 v, least significant first.
IntBytesLE(v) ==
    LET w == IF v >= 0 THEN v ELSE -(v + 1)
        b(i) == (w \div (256 ^ i)) % 256
        c(i) == IF v >= 0 THEN b(i) ELSE 255 - b(i)
    IN <<c(0), c(1), c(2), c(3)>>

\* numpy astype('>i4') / astype('<i4') followed by tostring().
PackInt(v, big) == IF big THEN Reverse(IntBytesLE(v)) ELSE IntBytesLE(v)

\* The int32 held by four bytes given least significant first.
IntOfLE(b) ==
    IF b[4] >= 128
    THEN -((255 - b[1]) + (255 - b[2]) * 256 + (255 - b[3]) * 65536
           + (255 - b[4]) * 16777216) - 1
    ELSE b[1] + b[2] * 256 + b[3] * 65536 + b[4] * 16777216

\* A word of the file as the native dtype reads it.
NativeLE(w, nat) == IF nat = "big" THEN Reverse(w) ELSE w

\* An IEEE-754 binary32 value is kept as its sign, exponent and mantissa fields.
F32OfLE(b) ==
    [s |-> b[4] \div 128,
     e |-> (b[4] % 128) * 2 + b[3] \div 128,
     m |-> (b[3] % 128) * 65536 + b[2] * 256 + b[1]]

F32BytesLE(f) ==
    <<f.m % 256, (f.m \div 256) % 256, (f.e % 2) * 128 + f.m \div 65536,
      f.s * 128 + f.e \div 2>>

RECURSIVE Log2(_)
Log2(a) == IF a <= 1 THEN 0 ELSE 1 + Log2(a \div 2)

\* The binary32 value of the integer k, |k| < 2^24 (exactly representable).
F32OfInt(k) ==
    IF k = 0 THEN [s |-> 0, e |-> 0, m |-> 0]
    ELSE LET a == Abs(k)
             p == Log2(a)
         IN [s |-> IF k < 0 THEN 1 ELSE 0,
             e |-> 127 + p,
             m |-> (a - 2 ^ p) * (2 ^ (23 - p))]

F32IsZero(f) == f.e = 0 /\ f.m = 0
F32IsNaN(f) == f.e = 255 /\ f.m # 0
F32IsInf(f) == f.e = 255 /\ f.m = 0
F32NaN == [s |-> 0, e |-> 255, m |-> 4194304]
F32Zero == [s |-> 0, e |-> 0, m |-> 0]

\* Numeric equality of two binary32 values (-0 = +0, NaN equals nothing).
F32Eq(f, g) ==
    /\ ~F32IsNaN(f)
    /\ ~F32IsNaN(g)
    /\ \/ f = g
       \/ F32IsZero(f) /\ F32IsZero(g)

\* real - 1j*imag of read_binary: the complex product 1j*y has real part 0*y.
Cplx(x, y) ==
    [re |-> IF F32IsNaN(y) \/ F32IsInf(y) THEN F32NaN ELSE x,
     im |-> IF F32IsNaN(y) THEN y
            ELSE IF F32IsZero(y) THEN F32Zero
            ELSE [y EXCEPT !.s = 1 - y.s]]

\* ------------------------------------------------------- read_binary
Min(a, b) == IF a < b THEN a ELSE b

\* f.read(k) with the file position at offset p.
Chunk(bytes, p, k) == SubSeq(bytes, p + 1, Min(p + k, Len(bytes)))

\* numpy.frombuffer accepts a buffer whose length is a multiple of the item size.
FromBufferOk(chunk) == Len(chunk) % 4 = 0

WordsOf(chunk) == [i \in 1..(Len(chunk) \div 4) |-> SubSeq(chunk, 4 * i - 3, 4 * i)]

Int32Array(chunk, nat) ==
    [i \in 1..(Len(chunk) \div 4) |-> IntOfLE(NativeLE(WordsOf(chunk)[i], nat))]

Float32Array(chunk, nat) ==
    [i \in 1..(Len(chunk) \div 4) |-> F32OfLE(NativeLE(WordsOf(chunk)[i], nat))]

\* A product clipped to -4096..4096: it is only used as a slice start and as an
\* element count, both compared with lengths far below the clip.
SatMul(a, b) ==
    LET cap == 4096
        big(x) == x >= cap \/ x <= -cap
        sgn(x) == IF x < 0 THEN -1 ELSE 1
    IN IF a = 0 \/ b = 0 THEN 0
       ELSE IF big(a) \/ big(b) THEN sgn(a) * sgn(b) * cap
       ELSE IF a * b >= cap THEN cap
       ELSE IF a * b <= -cap THEN -cap
       ELSE a * b

RECURSIVE SizeProd(_)
SizeProd(size) ==
    IF size = <<>> THEN 1 ELSE SatMul(Head(size), SizeProd(Tail(size)))

\* data[start::2], Python's slice rules for a start that is negative or past the end.
SliceBy2(data, start) ==
    LET L == Len(data)
        s0 == IF start < 0 THEN start + L ELSE start
        s == IF s0 < 0 THEN 0 ELSE IF s0 > L THEN L ELSE s0
    IN [k \in 1..((L - s + 1) \div 2) |-> data[s + 2 * (k - 1) + 1]]

PrefixSkipAlways(size) == SizeProd(size)

\* The number of leading payload floats that are not paired: size.prod() when the
\* second dimension is 1, none otherwise.
PrefixSkip(size) == IF size[2] = 1 THEN SizeProd(size) ELSE 0

\* a - 1j*b with numpy's broadcasting of two one-dimensional arrays.
BroadcastOk(a, b) == Len(a) = Len(b) \/ Len(a) = 1 \/ Len(b) = 1

PairUp(a, b) ==
    LET n == IF Len(a) = Len(b) THEN Len(a)
             ELSE IF Len(a) = 1 THEN Len(b) ELSE Len(a)
        pick(x, k) == IF Len(x) = n THEN x[k] ELSE x[1]
    IN [k \in 1..n |-> Cplx(pick(a, k), pick(b, k))]

\* ndarray.reshape((n1, n2)): one dimension may be -1 and is then inferred.
ShapeOk(count, n1, n2) ==
    IF n1 < -1 \/ n2 < -1 THEN FALSE
    ELSE IF n1 = -1 /\ n2 = -1 THEN FALSE
    ELSE IF n1 = -1 THEN n2 # 0 /\ count % n2 = 0
    ELSE IF n2 = -1 THEN n1 # 0 /\ count % n1 = 0
    ELSE SatMul(n1, n2) = count

ShapeOf(count, n1, n2) ==
    IF n1 = -1 THEN <<count \div n2, n2>>
    ELSE IF n2 = -1 THEN <<n1, count \div n1>>
    ELSE <<n1, n2>>

\* The position in the flat pair sequence (from 0) of element (i, j) of the
\* reshaped array: row-major in the n2 = 1 branch, order='F' in the other.
FlatIndex(size, shape, i, j) ==
    IF size[2] = 1 THEN i * shape[2] + j ELSE j * shape[1] + i

Failure(e) == [ok |-> FALSE, err |-> e]

read_binary(bytes, nat) ==
    LET magic == Chunk(bytes, 0, 12)
        sizeB == Chunk(bytes, 16, 16)
        dataB == Chunk(bytes, 32, Len(bytes))
        size == Int32Array(sizeB, nat)
        data == Float32Array(dataB, nat)
        skip == PrefixSkip(size)
        a == SliceBy2(data, skip)
        b == SliceBy2(data, skip + 1)
        pairs == PairUp(a, b)
        shape == ShapeOf(Len(pairs), size[1], size[2])
    IN IF \E i \in 1..Len(magic) : magic[i] >= 128 THEN Failure("UnicodeDecodeError")
       ELSE IF ~FromBufferOk(sizeB) \/ ~FromBufferOk(dataB) THEN Failure("ValueError")
       ELSE IF Len(size) < 2 THEN Failure("IndexError")
       ELSE IF ~BroadcastOk(a, b) THEN Failure("ValueError")
       ELSE IF ~ShapeOk(Len(pairs), size[1], size[2]) THEN Failure("ValueError")
       ELSE [ok |-> TRUE,
             dic |-> [FILE_SIZE |-> Len(bytes)],
             shape |-> shape,
             arr |-> [ij \in (0..(shape[1] - 1)) \X (0..(shape[2] - 1)) |->
                        pairs[FlatIndex(size, shape, ij[1], ij[2]) + 1]]]

\* ----------------------------------------------- numbers and mappings
\* A Python number is kept as the decimal m * 10^e, m without a trailing zero,
\* with its type ("int" or "float"); a string as its characters.
RECURSIVE DecNorm(_, _)
DecNorm(m, e) ==
    IF m = 0 THEN [m |-> 0, e |-> 0]
    ELSE IF m % 10 = 0 THEN DecNorm(m \div 10, e + 1)
    ELSE [m |-> m, e |-> e]

PyInt(n) == [t |-> "int"] @@ DecNorm(n, 0)
PyFloat(m, e) == [t |-> "float"] @@ DecNorm(m, e)
PyStr(s) == [t |-> "str", s |-> s]
IsNum(v) == v.t \in {"int", "float"}

\* Equality of two Python numbers as numbers (1024 == 1024.0).
NumEq(v, w) == IsNum(v) /\ IsNum(w) /\ v.m = w.m /\ v.e = w.e

\* The value truncated toward zero, as a C cast from floating point to int does.
DecTrunc(m, e) ==
    IF e >= 0 THEN m * (10 ^ e)
    ELSE IF m >= 0 THEN m \div (10 ^ (-e))
    ELSE -((-m) \div (10 ^ (-e)))

\* A dict, in insertion order: a sequence of entries with distinct keys.
DicKeys(dic) == {dic[i].k : i \in 1..Len(dic)}
DicHas(dic, key) == key \in DicKeys(dic)
DicGet(dic, key) == dic[CHOOSE i \in 1..Len(dic) : dic[i].k = key].v
DicSet(dic, key, val) ==
    IF DicHas(dic, key)
    THEN [i \in 1..Len(dic) |-> IF dic[i].k = key THEN [k |-> key, v |-> val] ELSE dic[i]]
    ELSE Append(dic, [k |-> key, v |-> val])

\* dict.setdefault in place of assignment: the first value of a key is kept.
RECURSIVE DicUpdateKeep(_, _)
DicUpdateKeep(dic, other) ==
    IF other = <<>> THEN dic
    ELSE DicUpdateKeep(IF DicHas(dic, Head(other).k) THEN dic
                       ELSE DicSet(dic, Head(other).k, Head(other).v), Tail(other))

\* dict.update(other).
RECURSIVE DicUpdate(_, _)
DicUpdate(dic, other) ==
    IF other = <<>> THEN dic
    ELSE DicUpdate(DicSet(dic, Head(other).k, Head(other).v), Tail(other))

KeyDwellTime == <<"d", "w", "e", "l", "l", "T", "i", "m", "e">>
KeyFileSize == <<"F", "I", "L", "E", "_", "S", "I", "Z", "E">>

\* ------------------------------------------- write_binary and put_data
\* np.linspace(0, (n1-1)*dt, n1) with dt = dwellTime/1000: point k is k*dt.
TimeAxis(n, dwell) == [k \in 1..n |-> DecNorm((k - 1) * dwell.m, dwell.e - 3)]

\* np.concatenate([t, data.ravel().real, -data.ravel().imag]).
Payload(data, dwell) ==
    TimeAxis(Len(data), dwell)
    \o [k \in 1..Len(data) |-> DecNorm(data[k].re, 0)]
    \o [k \in 1..Len(data) |-> DecNorm(-data[k].im, 0)]

\* The head array of write_binary: magic and version words, then the dimensions.
head(n) == <<1347571539, 1145132097, 1446063665, 504, n, 1, 1, 1>>

\* put_data: every value is cast to a 4-byte integer of the chosen byte order.
put_data(values, big) ==
    Flatten([k \in 1..Len(values) |-> PackInt(DecTrunc(values[k].m, values[k].e), big)])

\* The bytes write_binary hands to the file: the payload alone.
WriteBinaryBytes(data, dwell, big) == put_data(Payload(data, dwell), big)

\* fileiobase.open_towrite: refuses an existing file unless overwrite is set.
open_towrite_raises(fs, name, overwrite) == fs[name] # NoFile /\ ~overwrite

BinFile(bytes) == [kind |-> "bin", bytes |-> bytes]

\* The outcome of write_binary: what it returns or raises, the file it leaves
\* and whether its handle is still open when control leaves the function.
write_binary(fs, name, dic, data, overwrite, big, fault) ==
    IF open_towrite_raises(fs, name, overwrite)
    THEN [res |-> Failure("FileExists"), fs |-> fs, open |-> FALSE]
    ELSE IF ~DicHas(dic, KeyDwellTime)
    THEN [res |-> Failure("KeyError"),
          fs |-> [fs EXCEPT ![name] = BinFile(<<>>)], open |-> TRUE]
    ELSE IF ~IsNum(DicGet(dic, KeyDwellTime))
    THEN [res |-> Failure("TypeError"),
          fs |-> [fs EXCEPT ![name] = BinFile(<<>>)], open |-> TRUE]
    ELSE IF fault
    THEN [res |-> Failure("OSError"),
          fs |-> [fs EXCEPT ![name] = BinFile(<<>>)], open |-> TRUE]
    ELSE [res |-> [ok |-> TRUE],
          fs |-> [fs EXCEPT ![name] =
                     BinFile(WriteBinaryBytes(data, DicGet(dic, KeyDwellTime), big))],
          open |-> FALSE]

\* ------------------------------------------------------------- text
\* A text is a sequence of characters (one-character strings).
Whitespace == {" ", "\t", "\n", "\r", "\f"}
Digits == <<"0", "1", "2", "3", "4", "5", "6", "7", "8", "9">>
IsDigit(c) == \E i \in 1..10 : Digits[i] = c
DigitVal(c) == (CHOOSE i \in 1..10 : Digits[i] = c) - 1

RECURSIVE LStripSet(_, _)
LStripSet(s, cs) ==
    IF s # <<>> /\ Head(s) \in cs THEN LStripSet(Tail(s), cs) ELSE s

RECURSIVE RStripSet(_, _)
RStripSet(s, cs) ==
    IF s # <<>> /\ s[Len(s)] \in cs
    THEN RStripSet(SubSeq(s, 1, Len(s) - 1), cs) ELSE s

\* str.strip(chars): every leading and trailing character of the set goes.
StripSet(s, cs) == LStripSet(RStripSet(s, cs), cs)

\* The first position of c in s, or 0.
IndexOf(s, c) ==
    IF \E i \in 1..Len(s) : s[i] = c
    THEN CHOOSE i \in 1..Len(s) : s[i] = c /\ \A j \in 1..(i - 1) : s[j] # c
    ELSE 0

\* str.split(c).
RECURSIVE Split(_, _)
Split(s, c) ==
    LET i == IndexOf(s, c)
    IN IF i = 0 THEN <<s>>
       ELSE <<SubSeq(s, 1, i - 1)>> \o Split(SubSeq(s, i + 1, Len(s)), c)

RECURSIVE DigitsVal(_)
DigitsVal(s) ==
    IF s = <<>> THEN 0
    ELSE DigitsVal(SubSeq(s, 1, Len(s) - 1)) * 10 + DigitVal(s[Len(s)])

AllDigits(s) == \A i \in 1..Len(s) : IsDigit(s[i])

Lower(c) ==
    CASE c = "I" -> "i" [] c = "N" -> "n" [] c = "F" -> "f" [] c = "A" -> "a"
      [] c = "T" -> "t" [] c = "Y" -> "y" [] c = "E" -> "e" [] OTHER -> c

\* float(s) of a stripped string: [sign] digits [. digits] [e [sign] digits],
\* [sign] . digits [...], or [sign] inf | infinity | nan in any case.
FloatParts(s) ==
    LET signed == s # <<>> /\ s[1] \in {"+", "-"}
        body == [i \in 1..(IF signed THEN Len(s) - 1 ELSE Len(s)) |->
                    Lower(s[IF signed THEN i + 1 ELSE i])]
        ePos == IndexOf(body, "e")
        mant == IF ePos = 0 THEN body ELSE SubSeq(body, 1, ePos - 1)
        expo == IF ePos = 0 THEN <<>> ELSE SubSeq(body, ePos + 1, Len(body))
        eSigned == expo # <<>> /\ expo[1] \in {"+", "-"}
        eDigits == IF eSigned THEN Tail(expo) ELSE expo
        dot == IndexOf(mant, ".")
        ip == IF dot = 0 THEN mant ELSE SubSeq(mant, 1, dot - 1)
        fp == IF dot = 0 THEN <<>> ELSE SubSeq(mant, dot + 1, Len(mant))
    IN [neg |-> signed /\ s[1] = "-",
        special |-> body \in {<<"i", "n", "f">>, <<"i", "n", "f", "i", "n", "i", "t", "y">>, <<"n", "a", "n">>},
        nan |-> body = <<"n", "a", "n">>,
        ok |-> /\ ip \o fp # <<>>
               /\ AllDigits(ip) /\ AllDigits(fp)
               /\ ePos # 0 => (eDigits # <<>> /\ AllDigits(eDigits)),
        digits |-> ip \o fp,
        scale |-> Len(fp),
        eNeg |-> eSigned /\ expo[1] = "-",
        eDigits |-> eDigits]

FloatOk(s) == FloatParts(s).special \/ FloatParts(s).ok

FloatOf(s) ==
    LET p == FloatParts(s)
    IN IF p.special
       THEN [t |-> "special", s |-> IF p.nan THEN "nan" ELSE IF p.neg THEN "-inf" ELSE "inf"]
       ELSE PyFloat(IF p.neg THEN -DigitsVal(p.digits) ELSE DigitsVal(p.digits),
                    (IF p.eNeg THEN -DigitsVal(p.eDigits) ELSE DigitsVal(p.eDigits))
                    - p.scale)

\* ---------------------------------------------------------- read_pars
UnquoteAll(val) == StripSet(val, {"\""})

\* The value of a line: a quoted value loses its quotes and stays a string, any
\* other value is the float it parses to, or itself.
TypeValue(val) ==
    IF val[1] = "\"" THEN PyStr(UnquoteAll(val))
    ELSE IF FloatOk(val) THEN FloatOf(val)
    ELSE PyStr(val)

\* The loop of read_pars over the text not yet read; n counts the lines read.
RECURSIVE ParsLoop(_, _, _)
ParsLoop(rest, dic, n) ==
    LET nl == IndexOf(rest, "\n")
        raw == IF nl = 0 THEN rest ELSE SubSeq(rest, 1, nl)
        after == IF nl = 0 THEN <<>> ELSE SubSeq(rest, nl + 1, Len(rest))
        line == RStripSet(raw, Whitespace)
        parts == Split(line, "=")
        key == StripSet(parts[1], Whitespace)
        val == StripSet(parts[2], Whitespace)
    IN IF line = <<>> THEN [ok |-> TRUE, dic |-> dic, lines |-> n]
       ELSE IF Len(parts) < 2 THEN Failure("IndexError")
       ELSE IF val = <<>> THEN Failure("IndexError")
       ELSE ParsLoop(after, DicSet(dic, key, TypeValue(val)), n + 1)

read_pars(text) == ParsLoop(text, <<>>, 0)

\* --------------------------------------------------------- write_pars
RECURSIVE NatStr(_)
NatStr(n) == IF n < 10 THEN <<Digits[n + 1]>> ELSE NatStr(n \div 10) \o <<Digits[(n % 10) + 1]>>

IntStr(n) == IF n < 0 THEN <<"-">> \o NatStr(-n) ELSE NatStr(n)

RECURSIVE ZeroPad(_, _)
ZeroPad(s, width) == IF Len(s) >= width THEN s ELSE ZeroPad(<<"0">> \o s, width)

\* repr of a float in the range where Python uses no exponent.
FloatStr(m, e) ==
    IF e >= 0 THEN IntStr(m * (10 ^ e)) \o <<".", "0">>
    ELSE (IF m < 0 THEN <<"-">> ELSE <<>>)
         \o NatStr(Abs(m) \div (10 ^ (-e))) \o <<".">>
         \o ZeroPad(NatStr(Abs(m) % (10 ^ (-e))), -e)

\* "{}".format(v).
ValueStr(v) ==
    CASE v.t = "str" -> v.s
      [] v.t = "int" -> IntStr(DecTrunc(v.m, v.e))
      [] v.t = "float" -> FloatStr(v.m, v.e)

\* "{:<25}".format(k).
RECURSIVE PadRight(_, _)
PadRight(s, width) == IF Len(s) >= width THEN s ELSE PadRight(s \o <<" ">>, width)

ParLine(entry) == PadRight(entry.k, 25) \o <<" ", "=", " ">> \o ValueStr(entry.v)

RECURSIVE ParText(_)
ParText(dic) ==
    IF dic = <<>> THEN <<>>
    ELSE IF Len(dic) = 1 THEN ParLine(dic[1])
    ELSE ParText(SubSeq(dic, 1, Len(dic) - 1)) \o <<"\n">> \o ParLine(dic[Len(dic)])

TextFile(text) == [kind |-> "text", text |-> text]

\* The outcome of write_pars, as for write_binary.
write_pars(fs, name, dic, overwrite, fault) ==
    IF open_towrite_raises(fs, name, overwrite)
    THEN [res |-> Failure("FileExists"), fs |-> fs, open |-> FALSE]
    ELSE IF fault /\ dic # <<>>
    THEN [res |-> Failure("OSError"),
          fs |-> [fs EXCEPT ![name] = TextFile(<<>>)], open |-> TRUE]
    ELSE [res |-> [ok |-> TRUE],
          fs |-> [fs EXCEPT ![name] = TextFile(ParText(dic))], open |-> FALSE]

\* ---------------------------------------------------------------- write
\* write(dir, dic, data, big, overwrite): write_pars on acqu.par, then
\* write_binary on data.1d; an exception of the first ends the call. `open` names
\* the files whose handle is left open.
write(fs, dic, data, big, overwrite, fault) ==
    LET p == write_pars(fs, ParNames[1], dic, overwrite, fault)
        b == write_binary(p.fs, BinName, dic, data, overwrite, big, FALSE)
    IN IF ~p.res.ok
       THEN [res |-> p.res, fs |-> p.fs,
             open |-> IF p.open THEN {ParNames[1]} ELSE {}]
       ELSE [res |-> b.res, fs |-> b.fs,
             open |-> IF b.open THEN {BinName} ELSE {}]

\* --------------------------------------------------------- create_dic
\* True division: a float, exact for the divisors the model uses (1, 2, 5, 1000).
DecDiv(a, b) == [t |-> "float"] @@ DecNorm((a.m * 1000) \div b.m, a.e - b.e - 3)

DecNeg(a) == [a EXCEPT !.m = -a.m]

\* A sum is a float as soon as one operand is.
DecAdd(a, b) ==
    LET e == Min(a.e, b.e)
    IN [t |-> IF a.t = "int" /\ b.t = "int" THEN "int" ELSE "float"]
       @@ DecNorm(a.m * (10 ^ (a.e - e)) + b.m * (10 ^ (b.e - e)), e)

create_dic(c0, f0, dt, tau, nt, ns) ==
    <<
      [k |-> <<"S", "o", "l", "v", "e", "n", "t">>,
       v |-> PyStr(<<>>)],
      [k |-> <<"S", "a", "m", "p", "l", "e">>,
       v |-> PyStr(<<>>)],
      [k |-> <<"s", "t", "a", "r", "t", "T", "i", "m", "e">>,
       v |-> PyStr(<<>>)],
      [k |-> <<"a", "c", "q", "D", "e", "l", "a", "y">>,
       v |-> PyFloat(tau.m * 1000000, tau.e)],
      [k |-> <<"b", "1", "F", "r", "e", "q">>,
       v |-> c0],
      [k |-> <<"b", "a", "n", "d", "w", "i", "d", "t", "h">>,
       v |-> DecDiv(DecDiv(PyInt(1), dt), PyInt(1000))],
      [k |-> <<"d", "w", "e", "l", "l", "T", "i", "m", "e">>,
       v |-> [t |-> dt.t] @@ DecNorm(1000 * dt.m, dt.e)],
      [k |-> <<"e", "x", "p", "e", "r", "i", "m", "e", "n", "t">>,
       v |-> PyStr(<<"1", "D">>)],
      [k |-> <<"e", "x", "p", "N", "a", "m", "e">>,
       v |-> PyStr(<<"1", "D">>)],
      [k |-> <<"n", "r", "P", "n", "t", "s">>,
       v |-> nt],
      [k |-> <<"n", "r", "S", "c", "a", "n", "s">>,
       v |-> ns],
      [k |-> <<"r", "e", "p", "T", "i", "m", "e">>,
       v |-> PyInt(0)],
      [k |-> <<"r", "x", "C", "h", "a", "n", "n", "e", "l">>,
       v |-> PyStr(<<"1", "H">>)],
      [k |-> <<"r", "x", "G", "a", "i", "n">>,
       v |-> PyInt(0)],
      [k |-> <<"l", "o", "w", "e", "s", "t", "F", "r", "e", "q", "u", "e", "n", "c", "y">>,
       v |-> DecAdd(DecNeg(DecDiv(DecDiv(PyInt(1), dt), PyInt(2))), f0)],
      [k |-> <<"t", "o", "t", "a", "l", "A", "c", "q", "u", "i", "s", "i", "t", "i", "o", "n", "T", "i", "m", "e">>,
       v |-> PyInt(53)],
      [k |-> <<"g", "r", "a", "p", "h", "T", "i", "t", "l", "e">>,
       v |-> PyStr(<<"1", "D", "-", "1", "H", "-", "\"", "S", "t", "a", "n", "d", "a", "r", "d", "S", "c", "a", "n", "\"">>)],
      [k |-> <<"u", "s", "e", "r", "D", "a", "t", "a">>,
       v |-> PyStr(<<>>)],
      [k |-> <<"9", "0", "A", "m", "p", "l", "i", "t", "u", "d", "e">>,
       v |-> PyInt(0)],
      [k |-> <<"p", "u", "l", "s", "e", "L", "e", "n", "g", "t", "h">>,
       v |-> PyInt(0)],
      [k |-> <<"P", "r", "o", "t", "o", "c", "o", "l">>,
       v |-> PyStr(<<"1", "D", " ", "P", "R", "O", "T", "O", "N">>)],
      [k |-> <<"O", "p", "t", "i", "o", "n", "s">>,
       v |-> PyStr(<<"S", "c", "a", "n", "(", "S", "t", "a", "n", "d", "a", "r", "d", "S", "c", "a", "n", ")">>)],
      [k |-> <<"S", "p", "e", "c", "t", "r", "o", "m", "e", "t", "e", "r">>,
       v |-> PyStr(<<"P", "y", "t", "h", "o", "n">>)],
      [k |-> <<"S", "o", "f", "t", "w", "a", "r", "e">>,
       v |-> PyStr(<<"P", "y", "t", "h", "o", "n">>)]
    >>

\* ---------------------------------------------------------------- read
\* The loop of read over pars_files: each file that exists is decoded and merged.
RECURSIVE MergePars(_, _, _)
MergePars(fs, names, dic) ==
    IF names = <<>> THEN [ok |-> TRUE, dic |-> dic]
    ELSE IF fs[Head(names)] = NoFile THEN MergePars(fs, Tail(names), dic)
    ELSE LET r == read_pars(fs[Head(names)].text)
         IN IF ~r.ok THEN r
            ELSE MergePars(fs, Tail(names), DicUpdate(dic, r.dic))

\* read(dir, bin_file, pars_files) on a directory: `data` is bound only when the
\* binary file exists, and is returned in every case.
read(fs, binFile, parsFiles, nat) ==
    LET merged == MergePars(fs, parsFiles, <<>>)
        bin == read_binary(fs[binFile].bytes, nat)
    IN IF ~merged.ok THEN merged
       ELSE IF fs[binFile] = NoFile THEN Failure("UnboundLocalError")
       ELSE IF ~bin.ok THEN bin
       ELSE [ok |-> TRUE,
             dic |-> DicUpdate(merged.dic,
                               <<[k |-> KeyFileSize, v |-> PyInt(bin.dic.FILE_SIZE)]>>),
             shape |-> bin.shape,
             data |-> bin.arr]

\* ------------------------------------------------------------- state
\* native:  the byte order of the platform ("little" or "big"), which the
\*          native dtypes of read_binary follow;
\* input:   the arguments and the files the calls are given;
\* files:   the directory, file name -> NoFile or the file's content;
\* handles: the names of the files on which a call left its handle open;
\* origin:  the write_binary call that produced the binary file, if one did;
\* last:    the last call and its outcome.
Platforms == {"little", "big"}
NoFiles == [f \in FileNames |-> NoFile]

\* ------------------------------------------------------------ actions
\* read_binary(filename, big) on the binary file of the directory.
ReadBinaryAct ==
    \E big \in BOOLEAN :
        /\ last' = [op |-> "read_binary", big |-> big,
                    res |-> IF files[BinName] = NoFile
                            THEN Failure("FileNotFoundError")
                            ELSE read_binary(files[BinName].bytes, native)]
        /\ UNCHANGED <<native, input, files, handles, origin>>

\* read_pars(filename) on the acquisition parameter file.
ReadParsAct ==
    /\ last' = [op |-> "read_pars",
                res |-> IF files[ParNames[1]] = NoFile
                        THEN Failure("FileNotFoundError")
                        ELSE read_pars(files[ParNames[1]].text)]
    /\ UNCHANGED <<native, input, files, handles, origin>>

\* write_binary(filename, dic, data, overwrite, big); fault: f.write raises.
WriteBinaryAct ==
    \E overwrite \in BOOLEAN, big \in BOOLEAN, fault \in BOOLEAN :
        LET w == write_binary(files, BinName, input.dic, input.data, overwrite, big, fault)
        IN /\ files' = w.fs
           /\ handles' = IF w.open THEN handles \cup {BinName} ELSE handles
           /\ origin' = IF w.res.ok THEN [kind |-> "write_binary", big |-> big]
                        ELSE IF w.fs = files THEN origin ELSE NoOrigin
           /\ last' = [op |-> "write_binary", res |-> w.res]
           /\ UNCHANGED <<native, input>>

\* write_pars(filename, dic, overwrite); fault: f.write raises.
WriteParsAct ==
    \E overwrite \in BOOLEAN, fault \in BOOLEAN :
        LET w == write_pars(files, ParNames[1], input.dic, overwrite, fault)
        IN /\ files' = w.fs
           /\ handles' = IF w.open THEN handles \cup {ParNames[1]} ELSE handles
           /\ last' = [op |-> "write_pars", res |-> w.res]
           /\ UNCHANGED <<native, input, origin>>

\* write(dir, dic, data, big, overwrite): the parameter file, then the binary file.
WriteAct ==
    \E overwrite \in BOOLEAN, big \in BOOLEAN, fault \in BOOLEAN :
        LET w == write(files, input.dic, input.data, big, overwrite, fault)
        IN /\ files' = w.fs
           /\ handles' = handles \cup w.open
           /\ origin' = IF w.res.ok THEN [kind |-> "write_binary", big |-> big]
                        ELSE IF w.fs[BinName] = files[BinName] THEN origin
                        ELSE NoOrigin
           /\ last' = [op |-> "write", res |-> w.res]
           /\ UNCHANGED <<native, input>>

\* read(dir, bin_file, pars_files) with the default or an explicit file list.
ReadAct ==
    \E parsFiles \in {ParNames, Reverse(ParNames)} :
        /\ last' = [op |-> "read", parsFiles |-> parsFiles,
                    res |-> read(files, BinName, parsFiles, native)]
        /\ UNCHANGED <<native, input, files, handles, origin>>

\* ------------------------------------- the writers and their round trip
Vals == (-MaxVal)..MaxVal
Samples == [re : 0..MaxVal, im : Vals]
Arrays == UNION {[1..n -> Samples] : n \in 1..MaxN}

\* Parameter mappings handed to the writers: with an integer or a float dwell
\* time in ms, and without the entry.
WriteDics ==
    {<<[k |-> KeyDwellTime, v |-> PyInt(1000)]>>,
     <<[k |-> KeyDwellTime, v |-> PyFloat(500, 0)]>>,
     <<[k |-> <<"n", "r", "P", "n", "t", "s">>, v |-> PyInt(2)]>>}

Init ==
    /\ native \in Platforms
    /\ input \in [data : Arrays, dic : WriteDics]
    /\ files = NoFiles
    /\ handles = {}
    /\ origin = NoOrigin
    /\ last = Idle

Next == WriteBinaryAct \/ WriteParsAct \/ WriteAct \/ ReadBinaryAct \/ ReadParsAct

Spec == Init /\ [][Next]_vars

\* ----------------------------------------- binary files found on disk
\* A file in the layout read_binary expects, as the instrument of this platform
\* writes it: the 16-byte prologue, the dimension words, then nf floats of which
\* float i has the value i; the last `cut` bytes are missing.
PackF32(f, nat) == NativeLE(F32BytesLE(f), nat)

InstrumentBytes(dims, nf, cut, nat) ==
    LET whole == Flatten([i \in 1..4 |-> PackInt(head(0)[i], nat = "big")])
                 \o Flatten([i \in 1..4 |-> PackInt(dims[i], nat = "big")])
                 \o Flatten([i \in 1..nf |-> PackF32(F32OfInt(i), nat)])
    IN SubSeq(whole, 1, Len(whole) - cut)

InstrumentFiles ==
    [dims : (0..MaxDim) \X (0..MaxDim) \X (1..MaxRep) \X (1..MaxRep),
     nf : 0..MaxFloats, cut : 0..MaxCut]

InitDecode ==
    /\ native \in Platforms
    /\ input \in InstrumentFiles
    /\ files = [NoFiles EXCEPT ![BinName] =
                   BinFile(InstrumentBytes(input.dims, input.nf, input.cut, native))]
    /\ handles = {}
    /\ origin = NoOrigin
    /\ last = Idle

SpecDecode == InitDecode /\ [][ReadBinaryAct]_vars

\* ------------------------------------------- parameter files on disk
\* The lines a parameter file is made of, each with what the format description
\* makes of it: the key it defines and the value the key is to get.
LineCatalog ==
    <<
      [text |-> <<"a", " ", "=", " ", "\"", "a", "b", "c", "\"">>,
       kind |-> "entry", key |-> <<"a">>,
       want |-> PyStr(<<"a", "b", "c">>)],
      [text |-> <<"b", " ", "=", " ", "3", ".", "1", "4">>,
       kind |-> "entry", key |-> <<"b">>,
       want |-> PyFloat(314, -2)],
      [text |-> <<"c", " ", "=", " ", "n", "o", "t", "a", "n", "u", "m", "b", "e", "r">>,
       kind |-> "entry", key |-> <<"c">>,
       want |-> PyStr(<<"n", "o", "t", "a", "n", "u", "m", "b", "e", "r">>)],
      [text |-> <<"d", " ", "=", " ", "\"", "\"", "x", "\"", "\"">>,
       kind |-> "entry", key |-> <<"d">>,
       want |-> PyStr(<<"\"", "x", "\"">>)],
      [text |-> <<"e", " ", "=">>,
       kind |-> "entry", key |-> <<"e">>,
       want |-> PyStr(<<>>)],
      [text |-> <<"g", " ", "=", " ", "\"", "p", "\"", "q", "\"">>,
       kind |-> "entry", key |-> <<"g">>,
       want |-> PyStr(<<"p", "\"", "q">>)],
      [text |-> <<"n", "o", "e", "q", "u", "a", "l", "s">>,
       kind |-> "noeq", key |-> <<>>,
       want |-> PyStr(<<>>)],
      [text |-> <<>>,
       kind |-> "blank", key |-> <<>>,
       want |-> PyStr(<<>>)]
    >>

EmptyValueLine == CHOOSE i \in 1..Len(LineCatalog) : LineCatalog[i].key = <<"e">>

RECURSIVE JoinLines(_)
JoinLines(ids) ==
    IF ids = <<>> THEN <<>>
    ELSE IF Len(ids) = 1 THEN LineCatalog[ids[1]].text
    ELSE LineCatalog[ids[1]].text \o <<"\n">> \o JoinLines(Tail(ids))

ParseInputs ==
    [ids : UNION {[1..n -> 1..Len(LineCatalog)] : n \in 1..MaxLines},
     newline : BOOLEAN]

InitParse ==
    /\ native \in Platforms
    /\ input \in ParseInputs
    /\ files = [NoFiles EXCEPT ![ParNames[1]] =
                   TextFile(JoinLines(input.ids)
                            \o (IF input.newline THEN <<"\n">> ELSE <<>>))]
    /\ handles = {}
    /\ origin = NoOrigin
    /\ last = Idle

SpecParse == InitParse /\ [][ReadParsAct]_vars

\* ------------------------------------ parameter mappings of create_dic
CreateDicArgs ==
    [c0 : {PyInt(60)}, f0 : {PyInt(0), PyInt(5)},
     dt : {PyInt(1), PyInt(2), PyFloat(5, -1)},
     tau : {PyInt(0), PyInt(1)}, nt : {PyInt(1), PyInt(1024)},
     ns : {PyInt(1), PyInt(4)}]

InitPars ==
    /\ native \in Platforms
    /\ \E a \in CreateDicArgs :
         input = [data |-> <<>>,
                  dic |-> create_dic(a.c0, a.f0, a.dt, a.tau, a.nt, a.ns)]
    /\ files = NoFiles
    /\ handles = {}
    /\ origin = NoOrigin
    /\ last = Idle

NextPars == WriteParsAct \/ ReadParsAct

SpecPars == InitPars /\ [][NextPars]_vars

\* ------------------------------------------------ directories on disk
DirKeys == {<<"X">>, <<"Y">>, KeyFileSize}
DirEntries == [k : DirKeys, v : {PyInt(1), PyInt(2)}]
DirDics == UNION {[1..n -> DirEntries] : n \in 1..MaxEntries}
Absent == [has |-> FALSE, dic |-> <<>>]
Present(d) == [has |-> TRUE, dic |-> d]

\* A parameter file is absent or holds what write_pars makes of a mapping; the
\* binary file is absent or holds n samples in the single-acquisition layout.
DirInputs ==
    [acqu : {Absent} \cup {Present(d) : d \in DirDics},
     protocol : {Absent} \cup {Present(d) : d \in DirDics},
     n : 0..MaxDim]

ParFileOf(f) == IF f.has THEN TextFile(ParText(f.dic)) ELSE NoFile

InitDir ==
    /\ native \in Platforms
    /\ input \in DirInputs
    /\ files = [f \in FileNames |->
                  IF f = ParNames[1] THEN ParFileOf(input.acqu)
                  ELSE IF f = ParNames[2] THEN ParFileOf(input.protocol)
                  ELSE IF input.n = 0 THEN NoFile
                  ELSE BinFile(InstrumentBytes(<<input.n, 1, 1, 1>>, 3 * input.n,
                                               0, native))]
    /\ handles = {}
    /\ origin = NoOrigin
    /\ last = Idle

SpecDir == InitDir /\ [][ReadAct]_vars

\* ------------------------------------------------ claims on read_binary
InstrumentRead == last.op = "read_binary"

\* The floats a header asks for: the prefix of the n2 = 1 branch, then a pair for
\* each of the n1*n2 samples.
PrefixOf(dims) == IF dims[2] = 1 THEN dims[1] * dims[2] * dims[3] * dims[4] ELSE 0
FloatsNeeded(dims) == PrefixOf(dims) + 2 * dims[1] * dims[2]

\* C5: dimension branch selection. When read_binary returns an array for a file
\* with header (n1, n2, n3, n4), the array has shape (n1, n2) and, for every k
\* whose pair of floats is in the payload, element (k mod n1, k div n1) is
\* real - i*imag of the k-th pair counted after the first n1*n2*n3*n4 floats when
\* n2 = 1 and from the start of the payload otherwise; a file holding exactly the
\* floats the header asks for is decoded.
C5_BranchSelection ==
    InstrumentRead =>
        LET dims == input.dims
            off == PrefixOf(dims)
        IN /\ (input.cut = 0 /\ input.nf = FloatsNeeded(dims)) => last.res.ok
           /\ last.res.ok =>
                /\ last.res.shape = <<dims[1], dims[2]>>
                /\ \A k \in 0..(dims[1] * dims[2] - 1) :
                     off + 2 * k + 2 <= input.nf =>
                        last.res.arr[<<k % dims[1], k \div dims[1]>>] =
                            [re |-> F32OfInt(off + 2 * k + 1),
                             im |-> F32OfInt(-(off + 2 * k + 2))]

\* A two-by-two array decoded by the column-major branch.
C5_Witness ==
    /\ InstrumentRead
    /\ last.res.ok
    /\ input.dims[1] = 2
    /\ input.dims[2] = 2

\* C7: read_binary returns an array only for a file that holds exactly the bytes
\* its header asks for, and the array then holds n1*n2 samples.
C7_ExactLengthOrError ==
    (InstrumentRead /\ last.res.ok) =>
        /\ input.cut = 0
        /\ input.nf = FloatsNeeded(input.dims)
        /\ Cardinality(DOMAIN last.res.arr) = input.dims[1] * input.dims[2]

\* ------------------------------------------------ claims on the writers
RoundTripRead ==
    /\ last.op = "read_binary"
    /\ origin.kind = "write_binary"
    /\ last.big = origin.big

\* C1: binary round trip. read_binary of the file a write_binary call produced,
\* with the same endianness flag, returns as many samples as were written, each
\* equal to the original, real part and imaginary part.
C1_RoundTrip ==
    RoundTripRead =>
        /\ last.res.ok
        /\ Cardinality(DOMAIN last.res.arr) = Len(input.data)
        /\ \A k \in 1..Len(input.data) :
             /\ F32Eq(last.res.arr[<<k - 1, 0>>].re, F32OfInt(input.data[k].re))
             /\ F32Eq(last.res.arr[<<k - 1, 0>>].im, F32OfInt(input.data[k].im))

WroteBinary == last.op = "write_binary" /\ last.res.ok

\* C4: the file write_binary writes begins with the 16-byte prologue and the
\* dimension words (n, 1, 1, 1), 32 bytes, and goes on with 3n 4-byte floats: the
\* time axis, the real parts, then the negated imaginary parts.
C4_HeaderThenPayload ==
    WroteBinary =>
        LET n == Len(input.data)
            bytes == files[BinName].bytes
            word(i) == SubSeq(bytes, 4 * i - 3, 4 * i)
            float(v) == IF origin.big THEN Reverse(F32BytesLE(F32OfInt(v)))
                        ELSE F32BytesLE(F32OfInt(v))
        IN /\ Len(bytes) = 32 + 12 * n
           /\ \A i \in 1..8 : word(i) = PackInt(head(n)[i], origin.big)
           /\ word(9) = float(0)
           /\ \A k \in 1..n : word(8 + n + k) = float(input.data[k].re)
           /\ \A k \in 1..n : word(8 + 2 * n + k) = float(-input.data[k].im)

\* C9: no write_binary or write_pars call leaves the handle of its file open,
\* whether it returns or raises.
C9_HandlesReleased == handles = {}

\* ------------------------------------------------- claims on read_pars
\* The lines read_pars is to take in: those before the first blank line.
RECURSIVE BeforeBlank(_)
BeforeBlank(ids) ==
    IF ids = <<>> \/ LineCatalog[Head(ids)].kind = "blank" THEN <<>>
    ELSE <<Head(ids)>> \o BeforeBlank(Tail(ids))

ParsedFile == last.op = "read_pars"

\* C3: a file whose k-th line is the first without '=', the lines before it being
\* well-formed, makes read_pars fail with MalformedParameterLine naming line k.
C3_MalformedLineReported ==
    ParsedFile =>
        LET ids == BeforeBlank(input.ids)
            bad == {i \in 1..Len(ids) : LineCatalog[ids[i]].kind = "noeq"}
            k == CHOOSE i \in bad : \A j \in bad : i <= j
        IN (bad # {} /\ \A j \in 1..(k - 1) : ids[j] # EmptyValueLine) =>
              /\ ~last.res.ok
              /\ last.res.err = "MalformedParameterLine"
              /\ last.res.line = k

\* C6: value typing. Every line 'key = value' yields an entry: a quoted value
\* without one layer of quotes as a string, any other value as the float it
\* parses to or else as the string it is, an empty value included.
C6_ValueTyping ==
    ParsedFile =>
        LET ids == BeforeBlank(input.ids)
        IN (\A i \in 1..Len(ids) : LineCatalog[ids[i]].kind = "entry") =>
              /\ last.res.ok
              /\ \A i \in 1..Len(ids) :
                   /\ DicHas(last.res.dic, LineCatalog[ids[i]].key)
                   /\ DicGet(last.res.dic, LineCatalog[ids[i]].key)
                        = LineCatalog[ids[i]].want

\* C10: read_pars of the file write_pars wrote for a mapping of create_dic
\* returns a mapping with the same keys and with every number equal.
C10_CreateDicRoundTrip ==
    (/\ last.op = "read_pars"
     /\ files[ParNames[1]] # NoFile
     /\ files[ParNames[1]].text # <<>>) =>
        /\ last.res.ok
        /\ DicKeys(last.res.dic) = DicKeys(input.dic)
        /\ \A key \in DicKeys(input.dic) :
             IsNum(DicGet(input.dic, key)) =>
                NumEq(DicGet(last.res.dic, key), DicGet(input.dic, key))

\* ------------------------------------------------------ claims on read
DirRead == last.op = "read"

\* C2: read on a directory without the binary file returns the mapping of the
\* parameter files, without a FILE_SIZE entry, and raises nothing.
C2_MissingBinaryTolerated ==
    (DirRead /\ files[BinName] = NoFile) =>
        /\ last.res.ok
        /\ ~DicHas(last.res.dic, KeyFileSize)

\* The mapping a listed file was written from, and the entry that counts for a key.
ListedDic(name) == IF name = ParNames[1] THEN input.acqu ELSE input.protocol
Defines(f, key) == f.has /\ key \in DicKeys(f.dic)
LastVal(f, key) ==
    LET d == f.dic
    IN d[CHOOSE i \in 1..Len(d) : d[i].k = key /\ \A j \in (i + 1)..Len(d) : d[j].k # key].v

\* What merge precedence gives a key: the value of the last listed file that
\* defines it, and no entry when none does.
MergedAsListed(key) ==
    LET names == last.parsFiles
        def == {i \in 1..Len(names) : Defines(ListedDic(names[i]), key)}
        win == CHOOSE i \in def : \A j \in def : j <= i
    IN IF def = {} THEN ~DicHas(last.res.dic, key)
       ELSE /\ DicHas(last.res.dic, key)
            /\ NumEq(DicGet(last.res.dic, key), LastVal(ListedDic(names[win]), key))

====
